---- MODULE Spec2Model ----
(***************************************************************************)
(* A model of the PhoneInput component (components/phone-input.ts): one    *)
(* widget, the loader service it awaits, the plugin instance it binds to   *)
(* its input element, and the callbacks it makes to its host.              *)
(*                                                                         *)
(* JavaScript runs every handler to completion, so each handler is one     *)
(* action.  The only suspension point is the await at line 265: Mount is   *)
(* the part of loadAndSetup before it, LoadResolve and LoadReject are the  *)
(* part after it.  A handler's effects are computed by threading a record  *)
(* w (the "world": the component's fields, the plugin instances, the       *)
(* element, the calls made so far and the pending exception) through one   *)
(* operator per method of the component.                                   *)
(***************************************************************************)
EXTENDS Integers, Sequences, FiniteSets, TLC

\* The number of events (Update, OnInput, countrychange) one run delivers.
MaxEvents == 3

---------------------------------------------------------------------------
\* JavaScript values.  A string that may be null or undefined is wrapped;
\* an object is the record of its properties and {} is the empty record.
Null == [jstype |-> "null"]
Undefined == [jstype |-> "undefined"]
Str(s) == [jstype |-> "string", value |-> s]
Num(n) == [jstype |-> "number", value |-> n]
Bool(b) == [jstype |-> "boolean", value |-> b]
SomeObject == [jstype |-> "object"]
EmptyObject == <<>>

\* JavaScript truthiness of a wrapped value (the `||` of the getters).
Truthy(v) ==
  CASE v.jstype = "string" -> v.value # ""
    [] v.jstype = "number" -> v.value # 0
    [] v.jstype = "boolean" -> v.value
    [] v.jstype = "object" -> TRUE
    [] OTHER -> FALSE

\* typeof v.
TypeOf(v) == IF v.jstype = "null" THEN "object" ELSE v.jstype

\* v === u, as Array.prototype.includes compares (no NaN among the values).
StrictEquals(v, u) ==
  /\ v.jstype = u.jstype
  /\ v.jstype \in {"string", "number", "boolean"} => v.value = u.value

NoError == "none"

\* The values the host passes as arguments.
ArgNumbers == {Null, Str(""), Str("612345678")}
ArgCountries == {Undefined, Str("fr"), Str("us")}
ArgInitialCountries == {Undefined, Str("fr")}
\* The values a host may pass as autoPlaceholder and as customPlaceholder,
\* whatever the declared types say.
ArgAutoPlaceholders ==
  {Undefined, Null, Str(""), Str("polite"), Str("aggressive"), Str("off"),
   Str("always"), Bool(FALSE), Bool(TRUE), Num(0), Num(1)}
ArgCustomPlaceholders ==
  {Undefined, Null, Str(""), Str("Enter phone number"), Num(0), Num(42),
   Bool(FALSE), Bool(TRUE), SomeObject}
\* What the user can type into the element, and the countries of the dropdown
\* ("" is the plugin reporting no selected country).
InputValues == {"", "612345678", "12"}
Iso2Codes == {"", "fr", "us"}
\* The places of the mount sequence where the plugin can raise an error; the
\* error raised is named after the place.
ThrowSites == {"none", "construct", "setInitialCountry", "formatSetCountry"}

VARIABLES
  args,                   \* this.args: the host's configuration
  constructed,            \* the constructor: "pending", NoError or the error raised
  phoneInput,             \* the loader service: [intlTelInput |-> factory available]
  pc,                     \* loadAndSetup: "idle", "awaiting" (at the await) or "done"
  lifecycle,              \* "live", "destroying" or "destroyed"
  isLoadingIntlTelInput,  \* the loading flag
  intlTelInputInstance,   \* 0 for null, else the handle of the plugin instance
  plugins,                \* the plugin instances constructed so far, by handle
  inputValue,             \* element.value
  listeners,              \* the countrychange listeners registered on the element
  log,                    \* the calls the last handler made, in order
  raised,                 \* the error raised inside the last handler, or NoError
  thrown,                 \* the error the last handler let escape, or NoError
  lastAction,             \* the handler that ran last
  onInputResult,          \* what the last OnInput event handler returned
  events                  \* events delivered so far

vars == <<args, constructed, phoneInput, pc, lifecycle, isLoadingIntlTelInput,
          intlTelInputInstance, plugins, inputValue, listeners, log, raised,
          thrown, lastAction, onInputResult, events>>

---------------------------------------------------------------------------
\* The getters of the component, of the arguments a.
country(a) == IF Truthy(a.country) THEN a.country.value ELSE ""
number(a) == IF Truthy(a.number) THEN a.number ELSE Null
initialCountry(a) ==
  IF Truthy(a.initialCountry) THEN a.initialCountry.value ELSE ""

autoPlaceholder(a) ==
  IF Truthy(a.autoPlaceholder) THEN a.autoPlaceholder ELSE Str("polite")
customPlaceholder(a) ==
  IF Truthy(a.customPlaceholder) THEN a.customPlaceholder ELSE Null

\* Lines 98-103: the values the constructor accepts as autoPlaceholder.
validAutoPlaceholders ==
  {Str("polite"), Str("aggressive"), Str("off"), Undefined}

\* The constructor's two assertions: the error raised, or NoError.
constructor(a) ==
  IF Truthy(customPlaceholder(a)) /\ TypeOf(customPlaceholder(a)) # "string"
    THEN "AssertionError: customPlaceholder must be of type string"
    ELSE IF \E u \in validAutoPlaceholders :
                StrictEquals(autoPlaceholder(a), u)
           THEN NoError
           ELSE "AssertionError: autoPlaceholder possible values"

isDestroying == lifecycle \in {"destroying", "destroyed"}
isDestroyed == lifecycle = "destroyed"

\* The two function values involved in listener registration: the method on
\* the prototype, and the function `this.onCountryChange.bind(this)` makes.
OnCountryChangeMethod == "onCountryChange"
OnCountryChangeBound == "onCountryChange.bind(this)"

---------------------------------------------------------------------------
\* The world a handler starts from.
World(fault) ==
  [loading |-> isLoadingIntlTelInput,
   inst |-> intlTelInputInstance,
   plugins |-> plugins,
   value |-> inputValue,
   listeners |-> listeners,
   log |-> <<>>,
   exc |-> NoError,
   raised |-> NoError,
   ret |-> "none",
   fault |-> fault]

Throw(w, e) == [w EXCEPT !.exc = e, !.raised = e]

\* A call of a plugin method, as recorded in the log.
Call(op, h, a) == [op |-> op, on |-> h, arg |-> a]

---------------------------------------------------------------------------
\* The plugin (the wrapped library), as far as the component uses it.
DialCode(c) == CASE c = "fr" -> "+33" [] c = "us" -> "+1" [] OTHER -> ""

ValidNumbers == {<<"fr", "612345678">>}

FormatKinds == {"E164", "INTERNATIONAL", "NATIONAL", "RFC3966"}

Format(kind, c, v) ==
  IF v = "" THEN ""
  ELSE CASE kind = "E164" -> DialCode(c) \o v
         [] kind = "INTERNATIONAL" -> DialCode(c) \o " " \o v
         [] kind = "NATIONAL" -> "0" \o v
         [] kind = "RFC3966" -> "tel:" \o DialCode(c) \o v

\* intlTelInput(element, options): a new instance, which selects the initial country.
PluginConstruct(w, options) ==
  IF w.fault = "construct" THEN Throw(w, "construct")
  ELSE [w EXCEPT
          !.plugins = Append(@, [country |-> options.initialCountry,
                                 destroyed |-> FALSE]),
          !.log = Append(@, Call("intlTelInput", Len(w.plugins) + 1, <<>>))]

PluginSetNumber(w, h, n) ==
  [w EXCEPT !.value = n, !.log = Append(@, Call("setNumber", h, <<n>>))]

PluginSetCountry(w, h, c, site) ==
  IF w.fault = site THEN Throw(w, site)
  ELSE [w EXCEPT !.plugins[h].country = c,
                 !.log = Append(@, Call("setCountry", h, <<c>>))]

\* getNumber() without a format kind gives the E164 form.
PluginGetNumber(w, h, kind) ==
  [w |-> [w EXCEPT !.log = Append(@, Call("getNumber", h, <<kind>>))],
   value |-> Format(IF kind = "" THEN "E164" ELSE kind,
                    w.plugins[h].country, w.value)]

PluginGetExtension(w, h) ==
  [w |-> [w EXCEPT !.log = Append(@, Call("getExtension", h, <<>>))],
   value |-> ""]

PluginGetSelectedCountryData(w, h) ==
  [w |-> [w EXCEPT !.log = Append(@, Call("getSelectedCountryData", h, <<>>))],
   value |-> IF w.plugins[h].country = "" THEN EmptyObject
             ELSE [iso2 |-> w.plugins[h].country,
                   dialCode |-> DialCode(w.plugins[h].country)]]

PluginIsValidNumber(w, h) ==
  [w |-> [w EXCEPT !.log = Append(@, Call("isValidNumber", h, <<>>))],
   value |-> <<w.plugins[h].country, w.value>> \in ValidNumbers]

PluginDestroy(w, h) ==
  [w EXCEPT !.plugins[h].destroyed = TRUE,
            !.log = Append(@, Call("destroy", h, <<>>))]

\* The element's listener list.
AddEventListener(w, f) ==
  [w EXCEPT !.listeners = @ \cup {f},
            !.log = Append(@, [op |-> "addEventListener", listener |-> f])]
RemoveEventListener(w, f) ==
  [w EXCEPT !.listeners = @ \ {f},
            !.log = Append(@, [op |-> "removeEventListener", listener |-> f])]

---------------------------------------------------------------------------
\* The host's callbacks.
CallUpdate(w, n, meta) ==
  [w EXCEPT !.log = Append(@, [op |-> "update", number |-> n, meta |-> meta])]

\* this.args.onError?.(error)
CallOnError(w, a, e) ==
  IF a.onError
    THEN [w EXCEPT !.log = Append(@, [op |-> "onError", error |-> e])]
    ELSE w

---------------------------------------------------------------------------
\* The methods of the component.  h is a plugin handle, 0 for null.

\* Faulty variant of emptyMetaData: null instead of an object.
emptyMetaDataNull == Null

\* Line 353: `{} as MetaData`.
emptyMetaData == EmptyObject

\* Faulty variant of metaData: the four formats are returned whether or not
\* the number is valid.
metaDataAlwaysFormats(w, h) ==
  IF h = 0
    THEN [w |-> w, value |-> EmptyObject]
    ELSE LET extension == PluginGetExtension(w, h)
             selectedCountryData == PluginGetSelectedCountryData(extension.w, h)
             isValidNumber == PluginIsValidNumber(selectedCountryData.w, h)
             E164 == PluginGetNumber(isValidNumber.w, h, "E164")
             INTERNATIONAL == PluginGetNumber(E164.w, h, "INTERNATIONAL")
             NATIONAL == PluginGetNumber(INTERNATIONAL.w, h, "NATIONAL")
             RFC3966 == PluginGetNumber(NATIONAL.w, h, "RFC3966")
         IN [w |-> RFC3966.w,
             value |->
               [extension |-> extension.value,
                selectedCountryData |-> selectedCountryData.value,
                isValidNumber |-> isValidNumber.value,
                numberFormat |->
                  [E164 |-> E164.value,
                   INTERNATIONAL |-> INTERNATIONAL.value,
                   NATIONAL |-> NATIONAL.value,
                   RFC3966 |-> RFC3966.value]]]

metaData(w, h) ==
  IF h = 0
    THEN [w |-> w, value |-> emptyMetaData]
    ELSE LET extension == PluginGetExtension(w, h)
             selectedCountryData == PluginGetSelectedCountryData(extension.w, h)
             isValidNumber == PluginIsValidNumber(selectedCountryData.w, h)
             E164 == PluginGetNumber(isValidNumber.w, h, "E164")
             INTERNATIONAL == PluginGetNumber(E164.w, h, "INTERNATIONAL")
             NATIONAL == PluginGetNumber(INTERNATIONAL.w, h, "NATIONAL")
             RFC3966 == PluginGetNumber(NATIONAL.w, h, "RFC3966")
         IN [w |-> RFC3966.w,
             value |->
               [extension |-> extension.value,
                selectedCountryData |-> selectedCountryData.value,
                isValidNumber |-> isValidNumber.value,
                numberFormat |->
                  IF isValidNumber.value
                    THEN [E164 |-> E164.value,
                          INTERNATIONAL |-> INTERNATIONAL.value,
                          NATIONAL |-> NATIONAL.value,
                          RFC3966 |-> RFC3966.value]
                    ELSE Null]]

\* Faulty variant of internationalPhoneNumber: the value of the event's
\* target even when a plugin instance exists.
internationalPhoneNumberRaw(w, event) ==
  IF event = Undefined
    THEN [w |-> Throw(w, "TypeError"), value |-> ""]
    ELSE [w |-> w, value |-> event.target.value]

\* Lines 235-237: the plugin's number, else the value of the event's target.
\* Without a plugin and without an event, `.value` is read from undefined.
internationalPhoneNumber(w, event) ==
  IF w.inst # 0
    THEN PluginGetNumber(w, w.inst, "")
    ELSE IF event = Undefined
           THEN [w |-> Throw(w, "TypeError"), value |-> ""]
           ELSE [w |-> w, value |-> event.target.value]

onInput(w, event) ==
  LET n == internationalPhoneNumber(w, event)
  IN IF n.w.exc # NoError
       THEN n.w
       ELSE LET meta == metaData(n.w, n.w.inst)
            IN [CallUpdate(meta.w, Str(n.value), meta.value)
                  EXCEPT !.ret = "true"]

\* Faulty variant of applyCountryAndNumber: the number is not applied.
applyCountryOnly(w, a) ==
  IF country(a) # ""
    THEN PluginSetCountry(w, w.inst, country(a), "formatSetCountry")
    ELSE w

\* Lines 295-301.
applyCountryAndNumber(w, a) ==
  LET w1 == IF country(a) # ""
              THEN PluginSetCountry(w, w.inst, country(a),
                                    "formatSetCountry")
              ELSE w
  IN IF w1.exc # NoError
       THEN w1
       ELSE IF Truthy(number(a))
              THEN PluginSetNumber(w1, w1.inst, number(a).value)
              ELSE w1

\* Faulty variant of formatNumber: no check for a missing plugin instance,
\* so that a method is called on null.
formatNumberUnguarded(w, a) ==
  IF w.inst = 0 THEN Throw(w, "TypeError") ELSE applyCountryAndNumber(w, a)

formatNumber(w, a) ==
  IF w.inst = 0 THEN w ELSE applyCountryAndNumber(w, a)

onDidUpdate(w, a) == formatNumber(w, a)

\* Lines 319-333: the options handed to the plugin.
Options(a) ==
  [autoInsertDialCode |-> FALSE,
   nationalMode |-> TRUE,
   i18n |-> "fr",
   autoPlaceholder |-> autoPlaceholder(a),
   customPlaceholder |-> customPlaceholder(a),
   initialCountry |-> initialCountry(a)]

\* Faulty variant of emitInitialUpdate: no update is emitted.
emitInitialUpdateNone(w, a) == w

\* Line 347.
emitInitialUpdate(w, a) ==
  LET meta == metaData(w, w.inst)
  IN CallUpdate(meta.w, number(a), meta.value)

setupLibrary(w, a, factory) ==
  IF ~factory
    THEN w
    ELSE LET w1 == PluginConstruct(w, Options(a))
             h == Len(w1.plugins)
             w2 == IF Truthy(number(a))
                     THEN PluginSetNumber(w1, h, number(a).value)
                     ELSE w1
             w3 == [w2 EXCEPT !.inst = h]
             w4 == IF initialCountry(a) # ""
                     THEN PluginSetCountry(w3, h, initialCountry(a),
                                           "setInitialCountry")
                     ELSE w3
         IN IF w1.exc # NoError
              THEN w1
              ELSE IF w4.exc # NoError THEN w4 ELSE emitInitialUpdate(w4, a)

\* Faulty variant of onCountryChange: the selected country is not re-applied.
onCountryChangeNoReapply(w) ==
  LET selectedCountry ==
        IF w.inst # 0
          THEN PluginGetSelectedCountryData(w, w.inst)
          ELSE [w |-> w, value |-> Undefined]
  IN onInput(selectedCountry.w, Undefined)

onCountryChange(w) ==
  LET selectedCountry ==
        IF w.inst # 0
          THEN PluginGetSelectedCountryData(w, w.inst)
          ELSE [w |-> w, value |-> Undefined]
      iso2 == IF "iso2" \in DOMAIN selectedCountry.value
                THEN selectedCountry.value.iso2
                ELSE ""
      w1 == IF iso2 # ""
              THEN PluginSetCountry(selectedCountry.w, w.inst, iso2,
                                    "countryChange")
              ELSE selectedCountry.w
  IN onInput(w1, Undefined)

\* Faulty variant of onDestroy: destroy() is called without the check for a
\* missing plugin instance.
onDestroyUnguarded(w) ==
  IF w.inst = 0
    THEN Throw(w, "TypeError")
    ELSE RemoveEventListener(PluginDestroy(w, w.inst), OnCountryChangeMethod)

\* Faulty variant of onDestroy: the plugin instance is not destroyed.
onDestroyKeepsPlugin(w) == RemoveEventListener(w, OnCountryChangeMethod)

onDestroy(w) ==
  LET w1 == IF w.inst # 0 THEN PluginDestroy(w, w.inst) ELSE w
  IN RemoveEventListener(w1, OnCountryChangeMethod)

\* Faulty variant of tornDown: the teardown is never noticed.
tornDownNever == FALSE

\* Lines 269 and 284: the component is being, or has been, torn down.
tornDown == isDestroying \/ isDestroyed

\* Lines 273-280: the part of the try block after the teardown check.
setupSequence(w, a, factory) ==
  LET w1 == setupLibrary(w, a, factory)
      w2 == IF w1.exc # NoError THEN w1 ELSE formatNumber(w1, a)
  IN IF w2.exc # NoError
       THEN w2
       ELSE AddEventListener(w2, OnCountryChangeBound)

\* Faulty variant of catchClause: the error is handed to the handler and
\* thrown again.
catchClauseRethrow(w, a) ==
  IF w.exc # NoError THEN CallOnError(w, a, w.exc) ELSE w

\* Lines 281-282: the catch clause.
catchClause(w, a) ==
  IF w.exc # NoError
    THEN CallOnError([w EXCEPT !.exc = NoError], a, w.exc)
    ELSE w

\* Faulty variant of finallyClause: the flag is cleared after a teardown too.
finallyClauseAlways(w) == [w EXCEPT !.loading = FALSE]

\* Faulty variant of finallyClause: the flag is never cleared.
finallyClauseNever(w) == w

\* Lines 283-287: the finally clause.
finallyClause(w) ==
  IF ~tornDown THEN [w EXCEPT !.loading = FALSE] ELSE w

\* loadAndSetup from the await on; loadError is the rejection, or NoError.
loadAndSetupResume(w, a, factory, loadError) ==
  LET tried == IF loadError # NoError
                 THEN Throw(w, loadError)
                 ELSE IF tornDown THEN w ELSE setupSequence(w, a, factory)
  IN finallyClause(catchClause(tried, a))

---------------------------------------------------------------------------
\* A handler has run to its end in world w.
Commit(w, name) ==
  /\ isLoadingIntlTelInput' = w.loading
  /\ intlTelInputInstance' = w.inst
  /\ plugins' = w.plugins
  /\ inputValue' = w.value
  /\ listeners' = w.listeners
  /\ log' = w.log
  /\ raised' = w.raised
  /\ thrown' = w.exc
  /\ onInputResult' = w.ret
  /\ lastAction' = name
  /\ UNCHANGED constructed

\* A component whose constructor has returned, not yet inserted.
Init ==
  /\ args \in [number : ArgNumbers, country : ArgCountries,
               initialCountry : ArgInitialCountries, onError : BOOLEAN,
               autoPlaceholder : {Undefined},
               customPlaceholder : {Undefined}]
  /\ constructed = constructor(args)
  /\ phoneInput = [intlTelInput |-> FALSE]
  /\ pc = "idle"
  /\ lifecycle = "live"
  /\ isLoadingIntlTelInput = FALSE
  /\ intlTelInputInstance = 0
  /\ plugins = <<>>
  /\ inputValue = ""
  /\ listeners = {}
  /\ log = <<>>
  /\ raised = NoError
  /\ thrown = NoError
  /\ lastAction = "none"
  /\ onInputResult = "none"
  /\ events = 0

\* onDidInsert: loadAndSetup up to the await.
Mount ==
  /\ pc = "idle"
  /\ lifecycle = "live"
  /\ pc' = "awaiting"
  /\ Commit([World("none") EXCEPT
               !.loading = TRUE,
               !.log = <<[op |-> "load"]>>], "Mount")
  /\ UNCHANGED <<args, phoneInput, lifecycle, events>>

\* The load resolves: the service may or may not hold the plugin factory.
LoadResolve ==
  /\ pc = "awaiting"
  /\ \E factory \in BOOLEAN, fault \in ThrowSites :
       /\ phoneInput' = [intlTelInput |-> factory]
       /\ Commit(loadAndSetupResume(World(fault), args, factory, NoError),
                 "LoadResolve")
  /\ pc' = "done"
  /\ UNCHANGED <<args, lifecycle, events>>

LoadReject ==
  /\ pc = "awaiting"
  /\ Commit(loadAndSetupResume(World("none"), args, FALSE, "load"),
            "LoadReject")
  /\ pc' = "done"
  /\ UNCHANGED <<args, phoneInput, lifecycle, events>>

\* The host changes country or number: did-update runs onDidUpdate, in which
\* the plugin may raise at line 296.
Update ==
  /\ lifecycle = "live"
  /\ events < MaxEvents
  /\ \E c \in ArgCountries, n \in ArgNumbers,
        fault \in {"none", "formatSetCountry"} :
       LET a == [args EXCEPT !.country = c, !.number = n]
       IN /\ args' = a
          /\ Commit(onDidUpdate(World(fault), a), "Update")
  /\ events' = events + 1
  /\ UNCHANGED <<phoneInput, pc, lifecycle>>

\* The user types v: the element's input event runs onInput.
OnInput ==
  /\ events < MaxEvents
  /\ \E v \in InputValues :
       Commit(onInput([World("none") EXCEPT !.value = v],
                      [target |-> [value |-> v]]), "OnInput")
  /\ events' = events + 1
  /\ UNCHANGED <<args, phoneInput, pc, lifecycle>>

\* A countrychange event on the element: a live plugin has selected c.
\* Every registered listener runs.
CountryChange ==
  /\ pc # "idle"
  /\ events < MaxEvents
  /\ \E c \in Iso2Codes :
       LET h == Len(plugins)
           w0 == IF h > 0 /\ ~plugins[h].destroyed
                   THEN [World("none") EXCEPT !.plugins[h].country = c]
                   ELSE World("none")
       IN Commit(IF OnCountryChangeBound \in listeners
                   THEN onCountryChange(w0)
                   ELSE w0, "CountryChange")
  /\ events' = events + 1
  /\ UNCHANGED <<args, phoneInput, pc, lifecycle>>

\* will-destroy: the component is torn down and onDestroy runs.
Unmount ==
  /\ pc # "idle"
  /\ lifecycle = "live"
  /\ lifecycle' = "destroying"
  /\ Commit(onDestroy(World("none")), "Unmount")
  /\ UNCHANGED <<args, phoneInput, pc, events>>

Destroyed ==
  /\ lifecycle = "destroying"
  /\ lifecycle' = "destroyed"
  /\ UNCHANGED <<args, constructed, phoneInput, pc, isLoadingIntlTelInput,
                 intlTelInputInstance, plugins, inputValue, listeners, log,
                 raised, thrown, lastAction, onInputResult, events>>

Next ==
  \/ Mount
  \/ LoadResolve
  \/ LoadReject
  \/ Update
  \/ OnInput
  \/ CountryChange
  \/ Unmount
  \/ Destroyed

Spec == Init /\ [][Next]_vars

---------------------------------------------------------------------------
\* The constructor alone, over every placeholder argument a host may pass.
InitConstructor ==
  /\ args \in [number : {Null}, country : {Undefined},
               initialCountry : {Undefined}, onError : {FALSE},
               autoPlaceholder : ArgAutoPlaceholders,
               customPlaceholder : ArgCustomPlaceholders]
  /\ constructed = "pending"
  /\ phoneInput = [intlTelInput |-> FALSE]
  /\ pc = "idle"
  /\ lifecycle = "live"
  /\ isLoadingIntlTelInput = FALSE
  /\ intlTelInputInstance = 0
  /\ plugins = <<>>
  /\ inputValue = ""
  /\ listeners = {}
  /\ log = <<>>
  /\ raised = NoError
  /\ thrown = NoError
  /\ lastAction = "none"
  /\ onInputResult = "none"
  /\ events = 0

\* new PhoneInputComponent(owner, args): the assertions of lines 91-108.
Construct ==
  /\ constructed = "pending"
  /\ constructed' = constructor(args)
  /\ lastAction' = "Construct"
  /\ UNCHANGED <<args, phoneInput, pc, lifecycle, isLoadingIntlTelInput,
                 intlTelInputInstance, plugins, inputValue, listeners, log,
                 raised, thrown, onInputResult, events>>

NextConstructor == Construct

SpecConstructor == InitConstructor /\ [][NextConstructor]_vars

---------------------------------------------------------------------------
\* What the last handler did, read off its log.
Entries(op) == {i \in DOMAIN log : log[i].op = op}
Count(op) == Cardinality(Entries(op))
PluginMethods == {"intlTelInput", "setNumber", "setCountry", "getNumber",
                  "getExtension", "getSelectedCountryData", "isValidNumber",
                  "destroy"}
PluginCalls == {i \in DOMAIN log : log[i].op \in PluginMethods}
\* The load has resolved (not rejected) and the continuation has run.
Resolved == lastAction = "LoadResolve"
\* The widget has a plugin instance and has not been torn down.
Ready == intlTelInputInstance # 0 /\ lifecycle = "live"

\* C1: when the load resolves for a widget that was unmounted while the load
\* was in flight, the continuation constructs no plugin, calls no plugin
\* method (no setCountry, no setNumber), registers no countrychange listener
\* and makes no update callback.
C1_NoSetupAfterUnmount ==
  (Resolved /\ isDestroying) =>
    /\ log = <<>>
    /\ plugins = <<>>
    /\ intlTelInputInstance = 0
    /\ listeners = {}

\* The load resolved with the factory available on a torn-down widget.
C1_Witness ==
  /\ Resolved
  /\ isDestroying
  /\ phoneInput.intlTelInput
  /\ Truthy(args.number)

\* C2: after Unmount of a widget whose mount completed, the countrychange
\* listener Mount registered is no longer registered on the element, and a
\* countrychange event dispatched after Unmount runs no handler of the widget.
C2_ListenerRemovedByUnmount ==
  (isDestroying /\ intlTelInputInstance # 0) =>
    /\ OnCountryChangeBound \notin listeners
    /\ lastAction = "CountryChange" => log = <<>>

\* C3: an error raised by the load or by the construction/setup of the
\* plugin is caught (none escapes loadAndSetup) and the error handler, when
\* the host gave one, is called exactly once, with that error; when no
\* error is raised the error handler is not called.
C3_ErrorHandledOnce ==
  lastAction \in {"Mount", "LoadResolve", "LoadReject"} =>
    /\ thrown = NoError
    /\ (raised # NoError /\ args.onError) =>
         /\ Count("onError") = 1
         /\ \A i \in Entries("onError") : log[i].error = raised
    /\ (raised = NoError \/ ~args.onError) => Count("onError") = 0
    /\ lastAction = "LoadReject" => raised = "load"

\* The construction of the plugin raised an error and the handler got it.
C3_Witness ==
  /\ Resolved
  /\ raised = "construct"
  /\ args.onError
  /\ Count("onError") = 1
  /\ thrown = NoError

\* C4 as stated: every Mount whose load resolves on a widget not torn down
\* emits the initial update exactly once, and setCountry/setNumber are
\* called only on a constructed plugin.  (Stated here for the loads that
\* left the plugin factory available; it fails for the others as well.)
C4_Original_InitialUpdateOnce ==
  /\ (Resolved /\ ~isDestroying /\ phoneInput.intlTelInput) =>
       Count("update") = 1
  /\ \A i \in Entries("setCountry") \cup Entries("setNumber") :
       \E j \in 1..Len(plugins) : log[i].on = j

\* The initial update is reached: the factory is there and neither the
\* construction nor the application of the initial country raised.
SetupCompleted ==
  /\ phoneInput.intlTelInput
  /\ raised \notin {"construct", "setInitialCountry"}

\* C4, amended: a Mount whose load resolves on a widget not torn down emits
\* the initial update exactly once when the plugin factory is available and
\* constructing the plugin and applying the initial number and country raise
\* no error, and emits none otherwise; and in every handler a setCountry or
\* setNumber call is made on a plugin instance constructed before the call.
C4_InitialUpdateOnceAfterSetup ==
  /\ (Resolved /\ ~isDestroying) =>
       /\ SetupCompleted => Count("update") = 1
       /\ ~SetupCompleted => Count("update") = 0
  /\ \A i \in Entries("setCountry") \cup Entries("setNumber") :
       /\ log[i].on \in 1..Len(plugins)
       /\ \A j \in Entries("intlTelInput") : log[j].on = log[i].on => j < i

\* A mount that applied the number and both countries and emitted its update.
C4_Witness ==
  /\ Resolved
  /\ ~isDestroying
  /\ Count("update") = 1
  /\ Count("setNumber") = 2
  /\ Count("setCountry") = 2

\* C5: every OnInput(event) calls the update callback exactly once and
\* returns true; the number passed is the plugin's getNumber() when a plugin
\* instance exists and the value of the event's target when none exists, and
\* the metadata is the one computed for that instance.
C5_OnInputEmitsOnce ==
  lastAction = "OnInput" =>
    /\ Count("update") = 1
    /\ onInputResult = "true"
    /\ thrown = NoError
    /\ \A i \in Entries("update") :
         /\ log[i].number =
              IF intlTelInputInstance # 0
                THEN Str(Format("E164",
                                plugins[intlTelInputInstance].country,
                                inputValue))
                ELSE Str(inputValue)
         /\ intlTelInputInstance = 0 => DOMAIN log[i].meta = {}
         /\ intlTelInputInstance # 0 =>
              DOMAIN log[i].meta = {"extension", "selectedCountryData",
                                    "isValidNumber", "numberFormat"}

\* Input typed while the load is in flight: the raw value is passed on.
C5_Witness ==
  /\ lastAction = "OnInput"
  /\ pc = "awaiting"
  /\ inputValue = "12"
  /\ \E i \in Entries("update") : log[i].number = Str("12")

\* C6: OnCountryChange on a Ready widget whose plugin reports the selected
\* country c: if c has an ISO2 code, setCountry(c) is called once and before
\* the update; if it has none, setCountry is not called; either way exactly
\* one update follows, with the plugin's number and the metadata recomputed
\* for the selected country.
C6_CountryChangeReappliesThenEmits ==
  (lastAction = "CountryChange" /\ Ready /\ OnCountryChangeBound \in listeners) =>
    LET c == plugins[intlTelInputInstance].country
    IN /\ thrown = NoError
       /\ Count("update") = 1
       /\ c # "" =>
            /\ Count("setCountry") = 1
            /\ \A i \in Entries("setCountry") :
                 /\ log[i].arg = <<c>>
                 /\ log[i].on = intlTelInputInstance
                 /\ \A j \in Entries("update") : i < j
       /\ c = "" => Count("setCountry") = 0
       /\ \A j \in Entries("update") :
            /\ log[j].number = Str(Format("E164", c, inputValue))
            /\ log[j].meta.isValidNumber = (<<c, inputValue>> \in ValidNumbers)
            /\ c # "" => log[j].meta.selectedCountryData.iso2 = c
            /\ c = "" => log[j].meta.selectedCountryData = EmptyObject

\* The plugin selected "fr", which was re-applied before the update.
C6_Witness ==
  /\ lastAction = "CountryChange"
  /\ Ready
  /\ plugins[intlTelInputInstance].country = "fr"
  /\ inputValue = "612345678"
  /\ Count("setCountry") = 1
  /\ Count("update") = 1

\* C7 as stated: every Update on a Ready widget applies the configuration's
\* number to the existing plugin instance with setNumber, whatever the number
\* is, and does not construct the plugin again.
C7_Original_UpdateAppliesEveryNumber ==
  (lastAction = "Update" /\ Ready /\ raised = NoError) =>
    /\ Count("setNumber") = 1
    /\ Count("intlTelInput") = 0
    /\ Len(plugins) = 1
    /\ intlTelInputInstance = 1

\* C7, amended: an Update on a Ready widget whose number is a non-empty
\* string applies that number to the existing plugin instance with one
\* setNumber call, unless applying the country raised an error before; when
\* the number is null or the empty string setNumber is not called and the
\* element keeps its value; in every case the plugin is not constructed
\* again (one instance, the same handle).
C7_UpdateAppliesNonEmptyNumber ==
  [][(lastAction' = "Update" /\ events' = events + 1
        /\ intlTelInputInstance # 0) =>
       /\ (Truthy(args'.number) /\ raised' = NoError) =>
            /\ Count("setNumber")' = 1
            /\ \A i \in Entries("setNumber")' :
                 /\ log'[i].arg = <<args'.number.value>>
                 /\ log'[i].on = intlTelInputInstance
            /\ inputValue' = args'.number.value
       /\ (~Truthy(args'.number) \/ raised' # NoError) =>
            /\ Count("setNumber")' = 0
            /\ inputValue' = inputValue
       /\ Count("intlTelInput")' = 0
       /\ Len(plugins') = 1
       /\ intlTelInputInstance' = intlTelInputInstance]_vars

\* An Update with a number on a Ready widget whose element held another value.
C7_Witness ==
  /\ lastAction = "Update"
  /\ Ready
  /\ Truthy(args.number)
  /\ inputValue = "612345678"
  /\ Count("setNumber") = 1
  /\ Count("setCountry") = 1
  /\ Len(plugins) = 1

\* C8: an Update on a widget without a plugin instance changes nothing: no
\* plugin call, no update or error callback, no error, and the plugin handle,
\* the loading flag, the element and its listeners are as before.
C8_UpdateWithoutPluginIsNoOp ==
  [][(lastAction' = "Update" /\ events' = events + 1
        /\ intlTelInputInstance = 0) =>
       /\ log' = <<>>
       /\ raised' = NoError
       /\ thrown' = NoError
       /\ intlTelInputInstance' = 0
       /\ plugins' = plugins
       /\ isLoadingIntlTelInput' = isLoadingIntlTelInput
       /\ inputValue' = inputValue
       /\ listeners' = listeners]_vars

\* An Update with a country and a number while the load is in flight.
C8_Witness ==
  /\ lastAction = "Update"
  /\ pc = "awaiting"
  /\ intlTelInputInstance = 0
  /\ isLoadingIntlTelInput
  /\ Truthy(args.number)
  /\ Truthy(args.country)

\* The metadata of the update callbacks of the last handler that were
\* computed from a plugin instance, and those computed without one.
PluginMetaData ==
  {log[i].meta : i \in {j \in Entries("update") : DOMAIN log[j].meta # {}}}

\* C9: in metadata computed from a plugin instance numberFormat is null
\* exactly when the plugin reports the number invalid, and otherwise holds
\* exactly the four representations E164, INTERNATIONAL, NATIONAL and
\* RFC3966, each what the plugin's getNumber gives for that kind.
C9_NumberFormatIffValid ==
  /\ \A m \in PluginMetaData :
       /\ m.isValidNumber <=> m.numberFormat # Null
       /\ m.isValidNumber => DOMAIN m.numberFormat = FormatKinds
  /\ (lastAction \in {"OnInput", "CountryChange"} /\ intlTelInputInstance # 0) =>
       \A m \in PluginMetaData :
         LET c == plugins[intlTelInputInstance].country
         IN /\ m.isValidNumber = (<<c, inputValue>> \in ValidNumbers)
            /\ m.isValidNumber =>
                 \A k \in FormatKinds : m.numberFormat[k] = Format(k, c, inputValue)

\* A valid number: the four representations are there.
C9_Witness ==
  /\ lastAction = "OnInput"
  /\ \E m \in PluginMetaData :
       /\ m.isValidNumber
       /\ m.numberFormat.E164 = "+33612345678"
       /\ m.numberFormat.INTERNATIONAL = "+33 612345678"
       /\ m.numberFormat.NATIONAL = "0612345678"
       /\ m.numberFormat.RFC3966 = "tel:+33612345678"

\* C10: metadata computed while no plugin instance exists is the empty
\* object, not null and not undefined, and no plugin method is called in
\* computing it.
C10_EmptyMetaDataWithoutPlugin ==
  intlTelInputInstance = 0 =>
    /\ \A i \in Entries("update") :
         /\ log[i].meta = EmptyObject
         /\ log[i].meta # Null
         /\ log[i].meta # Undefined
    /\ PluginCalls = {}

\* An update emitted by OnInput after a load that left no plugin instance.
C10_Witness ==
  /\ lastAction = "OnInput"
  /\ pc = "done"
  /\ intlTelInputInstance = 0
  /\ Count("update") = 1

\* The constructor has run; it failed if it raised an assertion error.
ConstructorRan == constructed # "pending"
ConstructorFailed == ConstructorRan /\ constructed # NoError

\* C11: construction fails with a validation error for every autoPlaceholder
\* outside {aggressive, off, polite, undefined} (null, the empty string,
\* false, 0 and other strings among them), and succeeds for those inside
\* when the customPlaceholder is acceptable.
C11_AutoPlaceholderValidated ==
  ConstructorRan =>
    /\ (\A u \in validAutoPlaceholders : ~StrictEquals(args.autoPlaceholder, u))
         => ConstructorFailed
    /\ ((\E u \in validAutoPlaceholders : StrictEquals(args.autoPlaceholder, u))
          /\ args.customPlaceholder \in {Undefined, Null, Str(""),
                                         Str("Enter phone number")})
         => constructed = NoError

\* C12: construction fails with a validation error for every customPlaceholder
\* that is defined and not a string (numbers, 0 among them, booleans, false
\* among them, and objects).
C12_CustomPlaceholderValidated ==
  (ConstructorRan /\ args.autoPlaceholder = Undefined
     /\ args.customPlaceholder.jstype \in {"number", "boolean", "object"})
    => ConstructorFailed

SettledAfterTeardown ==
  lastAction \in {"LoadResolve", "LoadReject"} /\ isDestroying

\* C14 as stated: once the load of a widget unmounted during the load has
\* settled, the loading flag is false.
C14_Original_FlagClearedAfterTeardown ==
  SettledAfterTeardown => ~isLoadingIntlTelInput

\* C14, amended: once the load of a widget unmounted during the load has
\* settled (resolved or rejected), the loading flag is still what Mount set
\* it to, true: the finally clause does not write it on a torn-down widget.
C14_FlagKeptAfterTeardown ==
  SettledAfterTeardown => isLoadingIntlTelInput

\* A load rejected after the teardown: the handler is told, the flag stays.
C14_Witness ==
  /\ lastAction = "LoadReject"
  /\ isDestroying
  /\ isLoadingIntlTelInput
  /\ Count("onError") = 1

\* The load resolved on a live widget and the setup ran to its end.
MountSucceeded ==
  /\ Resolved
  /\ ~isDestroying
  /\ raised = NoError
  /\ intlTelInputInstance # 0

\* C15: in a successful Mount the plugin is constructed, then the known
\* country and number are applied, then the countrychange listener is
\* registered, and only then is the initial update emitted: every setCountry,
\* setNumber and addEventListener of the mount sequence comes before the
\* update callback.  (Stated for the mounts that have a country to apply.)
C15_InitialUpdateLast ==
  (MountSucceeded /\ Truthy(args.country)) =>
    \A u \in Entries("update") :
      /\ \A c \in Entries("intlTelInput") : c < u
      /\ \A i \in Entries("setCountry") \cup Entries("setNumber") : i < u
      /\ \A l \in Entries("addEventListener") : l < u

\* The metadata of the last handler's updates that report an invalid number.
InvalidMetaData == {m \in PluginMetaData : ~m.isValidNumber}

\* C16: when the metadata is computed for a number the plugin reports
\* invalid, getNumber is not called with a format kind.
C16_NoFormatterCallWhenInvalid ==
  InvalidMetaData # {} =>
    \A i \in Entries("getNumber") : log[i].arg[1] \notin FormatKinds

C18_LoadingFlagAroundSequence ==
  [][/\ (pc = "idle" /\ pc' = "awaiting") => isLoadingIntlTelInput'
     /\ (pc = "awaiting" /\ pc' = "awaiting") =>
          (isLoadingIntlTelInput /\ isLoadingIntlTelInput')
     /\ (pc = "awaiting" /\ pc' = "done" /\ ~isDestroying) =>
          ~isLoadingIntlTelInput'
     /\ (pc = "done" \/ isDestroying) =>
          isLoadingIntlTelInput' = isLoadingIntlTelInput
     /\ (pc' = "done" /\ lifecycle' = "live") => ~isLoadingIntlTelInput']_vars

\* A failed sequence on a live widget: the flag is cleared all the same.
C18_Witness ==
  /\ pc = "done"
  /\ lifecycle = "live"
  /\ lastAction = "LoadResolve"
  /\ raised = "setInitialCountry"
  /\ ~isLoadingIntlTelInput

\* C19: after Unmount no later event makes the widget call a method of its
\* destroyed plugin instance or emit the update callback.  (Stated for the
\* countrychange events on the element.)
C19_NothingAfterUnmount ==
  (isDestroying /\ lastAction = "CountryChange") =>
    /\ PluginCalls = {}
    /\ Count("update") = 0

\* C20: whenever the countrychange listener is registered, a country change
\* is handled without an error and emits exactly one update, also when no
\* plugin instance was created.
C20_CountryChangeNeverRaises ==
  (lastAction = "CountryChange" /\ lifecycle = "live"
     /\ OnCountryChangeBound \in listeners) =>
    /\ raised = NoError
    /\ thrown = NoError
    /\ Count("update") = 1
====
